---- MODULE Spec2Model ----
(***************************************************************************)
(* sasayaki (src/main.rs): live captioning.  A GStreamer appsink callback   *)
(* (producer) appends PCM samples to a shared, mutex-guarded VecDeque; a    *)
(* glib timer try_sends ticks into a sync_channel(1); a worker thread       *)
(* receives a tick, drains a window from the VecDeque under the mutex,      *)
(* runs whisper on it and sends (text, fix) over a glib channel; the main   *)
(* loop handler applies each event to the caption window.                   *)
(*                                                                         *)
(* Samples are modelled by their capture index (1, 2, 3, ...), so that      *)
(* order, loss and duplication of samples are visible.  A text is a         *)
(* sequence of naturals; the empty sequence is the empty string.            *)
(***************************************************************************)
EXTENDS Integers, Sequences, FiniteSets, TLC

\* ---------------------------------------------------------------- bounds
\* --length is drawn from 0..MaxLength (ms), --keep from 0..MaxKeep (ms)
MaxLength == 2
MaxKeep == 2
\* how many times the timer fires, and how many buffers the source delivers
MaxTicks == 3
MaxPushes == 3
\* the sink on its own: how many events it is sent, and how many of them
\* may carry fix = FALSE
MaxSinkEvents == 103
MaxReplaces == 1
\* sizes (in samples) of the buffers the source delivers
ChunkSizes == {8, 40}

\* ------------------------------------------------------ program constants
SAMPLE_RATE == 16000
TICK_CAPACITY == 1
MAX_SCROLLBACKS == 100

VARIABLES
    length,        \* args.length (ms)
    keep,          \* args.keep (ms)
    buf,           \* the shared VecDeque<f32> behind the mutex
    lock,          \* holder of the mutex: "free", "producer", "worker"
    poisoned,      \* the mutex was held by a thread that panicked
    producer,      \* position of the new_sample callback
    samples,       \* the callback's local `samples` slice
    pushed,        \* samples captured so far (gives samples their identity)
    pushes,        \* buffers delivered so far
    bus_errors,    \* error messages posted on the pipeline bus
    tick_chan,     \* ticks pending in the sync_channel(1)
    fired,         \* timer callbacks run so far
    timer,         \* the glib timeout source: "scheduled" or "removed"
    carry,         \* history: what the last drain should have left behind
    since,         \* history: samples appended since the last drain
    evicted,       \* history: a push dropped samples since the last drain
    worker,        \* position of the worker thread
    fix_next,      \* worker local `fix_next`
    fix,           \* worker local `fix`
    audio_data,    \* worker local `audio_data` (the snapshot)
    result,        \* whisper local `result`
    result_chan,   \* events in flight in the glib channel
    label,         \* text of the current gtk::Label (win.label)
    scrollbacks,   \* texts of win.scrollbacks, oldest first
    received,      \* history: ticks received by the worker
    fulls,         \* history: per drain, whether the snapshot filled the window
    emitted,       \* history: events sent by the worker, in order
    applied,       \* history: events handled by the sink, in order
    dropped,       \* history: ticks whose try_send returned an error
    locked_buf     \* history: the buffer as the producer found it when it locked

vars == <<length, keep, buf, lock, poisoned, producer, samples, pushed, pushes,
          bus_errors, tick_chan, fired, worker, fix_next, fix, audio_data,
          result, result_chan, label, scrollbacks, received, fulls, emitted,
          applied, dropped, locked_buf, timer, carry, since, evicted>>

producerVars == <<producer, samples, pushed, pushes, bus_errors, locked_buf>>
timerVars == <<fired, dropped, timer>>
workerVars == <<worker, fix_next, fix, audio_data, result, received, fulls, emitted>>
sinkVars == <<label, scrollbacks, applied>>
configVars == <<length, keep>>
windowVars == <<carry, since, evicted>>

\* ------------------------------------------------ sequences, for the histories
Min(a, b) == IF a <= b THEN a ELSE b
\* the last n elements of s, in order
LastN(s, n) == SubSeq(s, Len(s) - n + 1, Len(s))
IsPrefix(s, t) == Len(s) <= Len(t) /\ SubSeq(t, 1, Len(s)) = s

\* ------------------------------------------------------------ pure parts
\* main.rs:282  let audio_buf_size = 16000 * args.length / 1000;
audio_buf_size == (SAMPLE_RATE * length) \div 1000
\* main.rs:283  let max_buf_size = audio_buf_size * 2;
max_buf_size == audio_buf_size * 2
\* main.rs:344  let keep_size = 16000 * args.keep / 1000;
keep_size == (SAMPLE_RATE * keep) \div 1000

\* an extend that puts the new samples at the front
ExtendFront(b, s) == s \o b
\* VecDeque::extend: append at the back
Extend(b, s) == b \o s
\* a split_off that keeps the front and drops the newest samples
SplitOffKeepsHead(b, at) == SubSeq(b, 1, Len(b) - at)
\* VecDeque::split_off(at): the elements from index `at` (0-based) to the end
SplitOff(b, at) == SubSeq(b, at + 1, Len(b))
\* a truncation that leaves one sample too many
TruncateOffByOne(b, buf_size) ==
    IF Len(b) > buf_size THEN SubSeq(b, Len(b) - buf_size, Len(b)) ELSE b
\* a callback that never truncates
TruncateNever(b, buf_size) == b
\* main.rs:121-124
Truncate(b, buf_size) ==
    IF Len(b) > buf_size THEN SplitOff(b, Len(b) - buf_size) ELSE b

\* the window test with a strict comparison
WindowFullStrict(b, size) == Len(b) > size
\* the window test with the comparison inverted
WindowFullInverted(b, size) == Len(b) <= size
\* main.rs:342  buf.len() >= audio_buf_size
WindowFull(b, size) == Len(b) >= size
\* a carry-over taken from the front of the snapshot
KeepHead(data, k) == SubSeq(data, 1, k)
\* main.rs:345  &audio_data[(audio_data.len() - keep_size)..]; the subtraction
\* is on usize and the slice is bounds-checked: it panics when k > len
SliceInRange(data, k) == k <= Len(data)
KeepTail(data, k) == SubSeq(data, Len(data) - k + 1, Len(data))

\* a trigger channel that queues without bound
TrySendUnbounded(chan, alive) == IF alive THEN chan + 1 ELSE chan
\* a trigger channel whose capacity test is off by one
TrySendOffByOne(chan, alive) ==
    IF alive /\ chan <= TICK_CAPACITY THEN chan + 1 ELSE chan
\* main.rs:328  tick_sender.try_send(()) on a sync_channel(1)
TrySend(chan, alive) ==
    IF alive /\ chan < TICK_CAPACITY THEN chan + 1 ELSE chan

\* main.rs:161-165  result = concatenation of the segments' texts
RECURSIVE ConcatSegments(_)
ConcatSegments(segs) ==
    IF segs = <<>> THEN <<>> ELSE Head(segs) \o ConcatSegments(Tail(segs))

\* what ctx.full can leave behind for trigger number n: no segment, or one
\* segment (set_single_segment(true)) whose text names the trigger
EngineSegments(n) == {<<>>, << <<n>> >>}

\* main.rs:258-268  Window::fix_label: the current label moves to the
\* scrollbacks, the oldest are removed beyond MAX_SCROLLBACKS
RECURSIVE PopFrontWhileOver(_)
PopFrontWhileOver(sb) ==
    IF Len(sb) > MAX_SCROLLBACKS THEN PopFrontWhileOver(Tail(sb)) ELSE sb
\* a fix_label that removes the newest entries instead of the oldest
FixLabelPopsBack(sb, lbl) ==
    SubSeq(Append(sb, lbl), 1, Min(MAX_SCROLLBACKS, Len(sb) + 1))
FixLabelScrollbacks(sb, lbl) == PopFrontWhileOver(Append(sb, lbl))

\* a handler that finalizes on the opposite flag
HandlerScrollbacksInverted(sb, lbl, f) ==
    IF ~f THEN FixLabelScrollbacks(sb, lbl) ELSE sb
\* main.rs:359-363: the handler's effect on scrollbacks
HandlerScrollbacks(sb, lbl, f) == IF f THEN FixLabelScrollbacks(sb, lbl) ELSE sb
\* main.rs:363 win.label.set_text(&text): the (possibly new) label shows text
HandlerLabel(lbl, text, f) == text

\* a channel that hands over the newest event first
ChanNextNewest(q) == q[Len(q)]
\* glib::MainContext::channel: FIFO
ChanSend(q, ev) == Append(q, ev)
ChanNext(q) == Head(q)
ChanRest(q) == Tail(q)

WorkerAlive == worker # "panicked"

\* ------------------------------------------------------------------ Init
Init ==
    /\ length \in 0..MaxLength
    /\ keep \in 0..MaxKeep
    /\ buf = <<>>
    /\ lock = "free"
    /\ poisoned = FALSE
    /\ producer = "idle"
    /\ samples = <<>>
    /\ pushed = 0
    /\ pushes = 0
    /\ bus_errors = 0
    /\ tick_chan = 0
    /\ fired = 0
    /\ timer = "scheduled"
    /\ carry = <<>>
    /\ since = <<>>
    /\ evicted = FALSE
    /\ worker = "recv"
    /\ fix_next = FALSE
    /\ fix = FALSE
    /\ audio_data = <<>>
    /\ result = <<>>
    /\ result_chan = <<>>
    /\ label = <<>>
    /\ scrollbacks = <<>>
    /\ received = 0
    /\ fulls = <<>>
    /\ emitted = <<>>
    /\ applied = <<>>
    /\ dropped = 0
    /\ locked_buf = <<>>

\* -------------------------------------------------------------- producer
\* main.rs:88-117: the appsink hands over a well-formed buffer of n samples
ProducerSample ==
    /\ producer = "idle"
    /\ pushes < MaxPushes
    /\ \E n \in ChunkSizes :
        /\ samples' = [i \in 1..n |-> pushed + i]
        /\ pushed' = pushed + n
    /\ pushes' = pushes + 1
    /\ producer' = "pulled"
    /\ UNCHANGED <<bus_errors, locked_buf, buf, lock, poisoned, tick_chan, result_chan>>
    /\ UNCHANGED <<timerVars, workerVars, sinkVars, configVars>>
    /\ UNCHANGED windowVars

\* a callback that skips a bad buffer and returns Ok
ProducerBadSampleSkips ==
    /\ producer = "idle"
    /\ pushes < MaxPushes
    /\ pushes' = pushes + 1
    /\ UNCHANGED <<producer, bus_errors>>
    /\ UNCHANGED <<samples, pushed, locked_buf, buf, lock, poisoned, tick_chan, result_chan>>
    /\ UNCHANGED <<timerVars, workerVars, sinkVars, configVars>>
    /\ UNCHANGED windowVars

\* main.rs:90-117: no buffer, unmappable or not f32: element_error! posts an
\* error on the bus and the callback returns FlowError::Error
ProducerBadSample ==
    /\ producer = "idle"
    /\ pushes < MaxPushes
    /\ pushes' = pushes + 1
    /\ bus_errors' = bus_errors + 1
    /\ producer' = "stopped"
    /\ UNCHANGED <<samples, pushed, locked_buf, buf, lock, poisoned, tick_chan, result_chan>>
    /\ UNCHANGED <<timerVars, workerVars, sinkVars, configVars>>
    /\ UNCHANGED windowVars

\* main.rs:119  buf.lock().unwrap(): blocks while held; panics when poisoned
ProducerLock ==
    /\ producer = "pulled"
    /\ lock = "free"
    /\ IF poisoned
       THEN /\ producer' = "stopped"
            /\ bus_errors' = bus_errors + 1
            /\ samples' = <<>>
            /\ UNCHANGED <<lock, locked_buf>>
       ELSE /\ producer' = "locked"
            /\ lock' = "producer"
            /\ locked_buf' = buf
            /\ UNCHANGED <<bus_errors, samples>>
    /\ UNCHANGED <<pushed, pushes, buf, poisoned, tick_chan, result_chan>>
    /\ UNCHANGED <<timerVars, workerVars, sinkVars, configVars>>
    /\ UNCHANGED windowVars

\* main.rs:120  buf.extend(samples)
ProducerExtend ==
    /\ producer = "locked"
    /\ buf' = Extend(buf, samples)
    /\ since' = since \o samples
    /\ producer' = "extended"
    /\ UNCHANGED <<carry, evicted>>
    /\ UNCHANGED <<samples, pushed, pushes, bus_errors, locked_buf, lock, poisoned,
                   tick_chan, result_chan>>
    /\ UNCHANGED <<timerVars, workerVars, sinkVars, configVars>>

\* main.rs:121-126: truncate to max_buf_size, drop the guard, return Ok
ProducerTruncate ==
    /\ producer = "extended"
    /\ buf' = Truncate(buf, max_buf_size)
    /\ evicted' = (evicted \/ Len(buf) > max_buf_size)
    /\ UNCHANGED <<carry, since>>
    /\ lock' = "free"
    /\ producer' = "idle"
    /\ samples' = <<>>
    /\ locked_buf' = <<>>
    /\ UNCHANGED <<pushed, pushes, bus_errors, poisoned, tick_chan, result_chan>>
    /\ UNCHANGED <<timerVars, workerVars, sinkVars, configVars>>

\* ----------------------------------------------------------------- timer
\* a timer callback that uses the blocking send: it cannot run to its end
\* while a tick is pending and the receiver lives
TimerFireBlocking ==
    /\ timer = "scheduled"
    /\ fired < MaxTicks
    /\ ~(WorkerAlive /\ tick_chan >= TICK_CAPACITY)
    /\ fired' = fired + 1
    /\ timer' = "scheduled"
    /\ tick_chan' = TrySend(tick_chan, WorkerAlive)
    /\ dropped' = IF tick_chan' = tick_chan THEN dropped + 1 ELSE dropped
    /\ UNCHANGED <<buf, lock, poisoned, result_chan>>
    /\ UNCHANGED <<producerVars, workerVars, sinkVars, configVars>>
    /\ UNCHANGED windowVars

\* main.rs:327-330: try_send, result ignored, Continue(true)
TimerFire ==
    /\ timer = "scheduled"
    /\ fired < MaxTicks
    /\ fired' = fired + 1
    /\ timer' = "scheduled"
    /\ tick_chan' = TrySend(tick_chan, WorkerAlive)
    /\ dropped' = IF tick_chan' = tick_chan THEN dropped + 1 ELSE dropped
    /\ UNCHANGED <<buf, lock, poisoned, result_chan>>
    /\ UNCHANGED <<producerVars, workerVars, sinkVars, configVars>>
    /\ UNCHANGED windowVars

\* ---------------------------------------------------------------- worker
\* main.rs:336-338: recv a tick, fix = fix_next, audio_data = Vec::new()
WorkerRecv ==
    /\ worker = "recv"
    /\ tick_chan > 0
    /\ tick_chan' = tick_chan - 1
    /\ fix' = fix_next
    /\ audio_data' = <<>>
    /\ received' = received + 1
    /\ worker' = "lock"
    /\ UNCHANGED <<fix_next, result, fulls, emitted, buf, lock, poisoned, result_chan>>
    /\ UNCHANGED <<producerVars, timerVars, sinkVars, configVars>>
    /\ UNCHANGED windowVars

\* main.rs:340  buf.lock().unwrap()  (only the worker itself ever poisons
\* the mutex, so it never finds it poisoned)
WorkerLock ==
    /\ worker = "lock"
    /\ lock = "free"
    /\ lock' = "worker"
    /\ worker' = "locked"
    /\ UNCHANGED <<fix_next, fix, audio_data, result, received, fulls, emitted>>
    /\ UNCHANGED <<buf, poisoned, tick_chan, result_chan>>
    /\ UNCHANGED <<producerVars, timerVars, sinkVars, configVars>>
    /\ UNCHANGED windowVars

\* main.rs:341-349: copy the whole buffer; when it fills the window, clear
\* it and re-seed it with the last keep_size samples of the copy
WorkerDrain ==
    /\ worker = "locked"
    /\ audio_data' = buf
    /\ fulls' = Append(fulls, Len(buf) >= audio_buf_size)
    /\ carry' = IF Len(buf) < audio_buf_size THEN buf
                ELSE IF keep_size <= Len(buf) THEN LastN(buf, keep_size)
                ELSE <<>>
    /\ since' = <<>>
    /\ evicted' = FALSE
    /\ IF WindowFull(buf, audio_buf_size)
       THEN IF SliceInRange(buf, keep_size)
            THEN /\ buf' = Extend(<<>>, KeepTail(buf, keep_size))
                 /\ fix_next' = TRUE
                 /\ worker' = "drained"
                 /\ UNCHANGED <<lock, poisoned, tick_chan>>
            ELSE \* panic after buf.clear(): the guard is dropped while
                 \* unwinding, the mutex is poisoned, the thread ends and
                 \* its tick_receiver is dropped with anything pending
                 /\ buf' = <<>>
                 /\ worker' = "panicked"
                 /\ lock' = "free"
                 /\ poisoned' = TRUE
                 /\ tick_chan' = 0
                 /\ UNCHANGED fix_next
       ELSE /\ fix_next' = FALSE
            /\ worker' = "drained"
            /\ UNCHANGED <<buf, lock, poisoned, tick_chan>>
    /\ UNCHANGED <<fix, result, received, emitted, result_chan>>
    /\ UNCHANGED <<producerVars, timerVars, sinkVars, configVars>>

\* a worker that keeps the guard alive across the call of whisper()
WorkerUnlockKeepsGuard ==
    /\ worker = "drained"
    /\ worker' = "engine"
    /\ UNCHANGED <<fix_next, fix, audio_data, result, received, fulls, emitted>>
    /\ UNCHANGED <<buf, lock, poisoned, tick_chan, result_chan>>
    /\ UNCHANGED <<producerVars, timerVars, sinkVars, configVars>>
    /\ UNCHANGED windowVars

\* main.rs:350: end of the block, the guard is dropped; whisper() is entered
WorkerUnlock ==
    /\ worker = "drained"
    /\ lock' = "free"
    /\ worker' = "engine"
    /\ UNCHANGED <<fix_next, fix, audio_data, result, received, fulls, emitted>>
    /\ UNCHANGED <<buf, poisoned, tick_chan, result_chan>>
    /\ UNCHANGED <<producerVars, timerVars, sinkVars, configVars>>
    /\ UNCHANGED windowVars

\* main.rs:156-166: ctx.full(...) and the segment loop succeed
WhisperFull ==
    /\ worker = "engine"
    /\ \E segs \in EngineSegments(received) : result' = ConcatSegments(segs)
    /\ worker' = "send"
    /\ UNCHANGED <<fix_next, fix, audio_data, received, fulls, emitted>>
    /\ UNCHANGED <<buf, lock, poisoned, tick_chan, result_chan>>
    /\ UNCHANGED <<producerVars, timerVars, sinkVars, configVars>>
    /\ UNCHANGED windowVars

\* a whisper() that gives up on the trigger and returns to the loop
WhisperFailContinues ==
    /\ worker = "engine"
    /\ worker' = "recv"
    /\ UNCHANGED <<fix_next, fix, audio_data, result, received, fulls, emitted>>
    /\ UNCHANGED <<buf, lock, poisoned, tick_chan, result_chan>>
    /\ UNCHANGED <<producerVars, timerVars, sinkVars, configVars>>
    /\ UNCHANGED windowVars

\* main.rs:156-157, 163: .expect(...) on an engine error panics the thread
WhisperFail ==
    /\ worker = "engine"
    /\ worker' = "panicked"
    /\ tick_chan' = 0
    /\ UNCHANGED <<fix_next, fix, audio_data, result, received, fulls, emitted>>
    /\ UNCHANGED <<buf, lock, poisoned, result_chan>>
    /\ UNCHANGED <<producerVars, timerVars, sinkVars, configVars>>
    /\ UNCHANGED windowVars

\* a whisper() that sends nothing when the text is empty
WhisperSendSkipEmpty ==
    /\ worker = "send"
    /\ IF result = <<>>
       THEN UNCHANGED <<result_chan, emitted>>
       ELSE /\ result_chan' = ChanSend(result_chan, <<result, fix>>)
            /\ emitted' = Append(emitted, <<result, fix>>)
    /\ worker' = "recv"
    /\ UNCHANGED <<fix_next, fix, audio_data, result, received, fulls>>
    /\ UNCHANGED <<buf, lock, poisoned, tick_chan>>
    /\ UNCHANGED <<producerVars, timerVars, sinkVars, configVars>>
    /\ UNCHANGED windowVars

\* main.rs:167  result_sender.send((result, fix)).unwrap(), back to recv
WhisperSend ==
    /\ worker = "send"
    /\ result_chan' = ChanSend(result_chan, <<result, fix>>)
    /\ emitted' = Append(emitted, <<result, fix>>)
    /\ worker' = "recv"
    /\ UNCHANGED <<fix_next, fix, audio_data, result, received, fulls>>
    /\ UNCHANGED <<buf, lock, poisoned, tick_chan>>
    /\ UNCHANGED <<producerVars, timerVars, sinkVars, configVars>>
    /\ UNCHANGED windowVars

\* ------------------------------------------------------------------ sink
\* main.rs:357-363: the attached handler takes the next event
SinkHandle ==
    /\ result_chan # <<>>
    /\ LET ev == ChanNext(result_chan) IN
        /\ scrollbacks' = HandlerScrollbacks(scrollbacks, label, ev[2])
        /\ label' = HandlerLabel(label, ev[1], ev[2])
        /\ applied' = Append(applied, ev)
    /\ result_chan' = ChanRest(result_chan)
    /\ UNCHANGED <<buf, lock, poisoned, tick_chan>>
    /\ UNCHANGED <<producerVars, timerVars, workerVars, configVars>>
    /\ UNCHANGED windowVars

Next ==
    \/ ProducerSample
    \/ ProducerBadSample
    \/ ProducerLock
    \/ ProducerExtend
    \/ ProducerTruncate
    \/ TimerFire
    \/ WorkerRecv
    \/ WorkerLock
    \/ WorkerDrain
    \/ WorkerUnlock
    \/ WhisperFull
    \/ WhisperFail
    \/ WhisperSend
    \/ SinkHandle

Spec == Init /\ [][Next]_vars

\* ------------------------------------------------- the sink on its own
\* The worker seen from the sink: main.rs:167 sends some (text, fix); the
\* n-th text is <<n>>.  One event is in flight at a time.
WhisperSendsAny ==
    /\ result_chan = <<>>
    /\ Len(emitted) < MaxSinkEvents
    /\ \E f \in BOOLEAN :
        /\ f \/ Cardinality({i \in 1..Len(emitted) : ~emitted[i][2]}) < MaxReplaces
        /\ result_chan' = ChanSend(result_chan, <<(<<Len(emitted) + 1>>), f>>)
        /\ emitted' = Append(emitted, <<(<<Len(emitted) + 1>>), f>>)
    /\ UNCHANGED <<worker, fix_next, fix, audio_data, result, received, fulls>>
    /\ UNCHANGED <<buf, lock, poisoned, tick_chan>>
    /\ UNCHANGED <<producerVars, timerVars, sinkVars, configVars, windowVars>>

InitSink == Init /\ length = 1 /\ keep = 0

NextSink ==
    \/ WhisperSendsAny
    \/ SinkHandle

SpecSink == InitSink /\ [][NextSink]_vars

TypeOK ==
    /\ lock \in {"free", "producer", "worker"}
    /\ producer \in {"idle", "pulled", "locked", "extended", "stopped"}
    /\ worker \in {"recv", "lock", "locked", "drained", "engine", "send", "panicked"}
    /\ tick_chan \in 0..TICK_CAPACITY
    /\ timer \in {"scheduled", "removed"}

\* ---------------------------------------------------------------- claims
\* the worker has received a tick and has not yet sent its event
WorkerBusy == worker \in {"lock", "locked", "drained", "engine", "send"}
TimerStep == fired' = fired + 1
DrainStep == worker = "locked" /\ worker' = "drained"
SinkStep == Len(applied') = Len(applied) + 1

\* C1: the fix flag of the event emitted for the N-th processed trigger is
\* the `full` result (snapshot length >= window) of the (N-1)-th processed
\* trigger, and FALSE for the first one.
C1_FixIsPreviousFull ==
    /\ Len(fulls) >= Len(emitted)
    /\ \A n \in 1..Len(emitted) :
        emitted[n][2] = (IF n = 1 THEN FALSE ELSE fulls[n - 1])
\* three events: the first trigger found a full window, the second did not
C1_Witness ==
    /\ Len(emitted) = 3
    /\ emitted[2][2] = TRUE
    /\ emitted[3][2] = FALSE

\* C2: whenever the mutex is free the accumulator holds at most
\* 2 * (16000 * length / 1000) samples.
C2_BoundedWhenUnlocked ==
    lock = "free" => Len(buf) <= 2 * ((16000 * length) \div 1000)
\* the mutex is free after a push that evicted samples
C2_Witness ==
    /\ lock = "free"
    /\ length > 0
    /\ Len(buf) = 2 * ((16000 * length) \div 1000)
    /\ buf[1] > 1

\* C3: a push of S onto contents A leaves the last min(C, |A| + |S|) elements
\* of A followed by S, in order.
C3_PushKeepsNewest ==
    [][(producer = "extended" /\ producer' = "idle") =>
        buf' = LastN(locked_buf \o samples,
                     Min(max_buf_size, Len(locked_buf) + Len(samples)))]_vars
\* 40 samples pushed onto the empty accumulator with C = 32: [9..40] remain
C3_Witness ==
    /\ length = 1
    /\ pushes = 1
    /\ producer = "idle"
    /\ buf = [i \in 1..32 |-> 8 + i]

\* C4: a drain that finds the window full, with keep_size no larger than the
\* snapshot, leaves exactly the last keep_size samples of the snapshot.
C4_CarryIsSnapshotTail ==
    [][(DrainStep /\ Len(buf) >= audio_buf_size /\ keep_size <= Len(buf)) =>
        /\ audio_data' = buf
        /\ buf' = LastN(buf, keep_size)]_vars
\* a full drain has just kept a proper, non-empty tail of its snapshot
C4_Witness ==
    /\ worker = "drained"
    /\ Len(audio_data) >= audio_buf_size
    /\ keep_size > 0
    /\ keep_size < Len(audio_data)

\* C5: a drain that finds fewer than window samples leaves the accumulator
\* as it was and hands over a copy of all of it.
C5_PartialDrainKeepsAll ==
    [][(DrainStep /\ Len(buf) < audio_buf_size) =>
        /\ buf' = buf
        /\ audio_data' = buf]_vars
\* a drain has just copied a non-empty, not yet full accumulator
C5_Witness ==
    /\ worker = "drained"
    /\ lock = "worker"
    /\ Len(audio_data) > 0
    /\ Len(audio_data) < audio_buf_size

C7_AsStated ==
    [][(TimerStep /\ WorkerBusy) =>
        /\ tick_chan' = tick_chan
        /\ dropped' = dropped + 1]_vars
\* C7 amended: a tick fired while the worker is processing is dropped only
\* when another tick is already pending; otherwise it is queued and becomes
\* the worker's next cycle.  Every tick fired is received, pending or dropped.
C7_BusyTickQueuedOnce ==
    /\ [][(TimerStep /\ WorkerBusy) =>
            IF tick_chan = 0
            THEN tick_chan' = 1 /\ dropped' = dropped
            ELSE tick_chan' = tick_chan /\ dropped' = dropped + 1]_vars
    /\ [](WorkerAlive => received + tick_chan + dropped = fired)
\* during one engine call one tick was queued and another one dropped
C7_Witness ==
    /\ worker = "engine"
    /\ received = 1
    /\ tick_chan = 1
    /\ dropped = 1

\* C8: at most one tick is pending, and a tick fired while one is pending is
\* discarded.
C8_AtMostOnePending ==
    /\ [](tick_chan <= 1)
    /\ [][(TimerStep /\ tick_chan = 1) =>
            tick_chan' = 1 /\ dropped' = dropped + 1]_vars
\* two ticks were discarded behind a pending one
C8_Witness ==
    /\ tick_chan = 1
    /\ dropped = 2

\* C9: every received tick whose engine call succeeds yields exactly one
\* event (result, fix) before the worker waits again, empty text included;
\* nothing is emitted without a tick.
C9_OneEventPerTrigger ==
    /\ [](/\ Len(emitted) <= received
          /\ received <= Len(emitted) + 1
          /\ worker = "recv" => Len(emitted) = received
          /\ worker = "send" => Len(emitted) = received - 1)
    /\ [][/\ (worker = "send" /\ worker' # "send") =>
                /\ worker' = "recv"
                /\ emitted' = Append(emitted, <<result, fix>>)
          /\ emitted' # emitted => worker = "send"]_vars
\* the worker waits again after an empty and a non-empty transcription
C9_Witness ==
    /\ worker = "recv"
    /\ Len(emitted) = 2
    /\ received = 2
    /\ emitted[1][1] = <<>>
    /\ emitted[2][1] # <<>>

\* C10: the events applied by the sink are a prefix of the events emitted by
\* the worker, and all of them once the channel is empty.
C10_AppliedIsPrefixOfEmitted ==
    /\ IsPrefix(applied, emitted)
    /\ result_chan = <<>> => applied = emitted
\* two distinct events applied while a third is still in flight
C10_Witness ==
    /\ Len(applied) = 2
    /\ Len(emitted) = 3
    /\ applied[1] # applied[2]

\* C11 as stated: every snapshot handed to the engine has at most
\* window (16000 * length / 1000) samples.
C11_AsStated ==
    worker = "engine" => Len(audio_data) <= (16000 * length) \div 1000
\* C11 amended: every snapshot handed to the engine has at most
\* C = 2 * window samples (the whole accumulator is copied).
C11_SnapshotAtMostCapacity ==
    worker = "engine" => Len(audio_data) <= 2 * ((16000 * length) \div 1000)
\* the engine is given a snapshot longer than the window, of full capacity
C11_Witness ==
    /\ worker = "engine"
    /\ length > 0
    /\ Len(audio_data) = 2 * ((16000 * length) \div 1000)

\* C12 as stated: a drain that finds the window full with keep_size larger
\* than the snapshot completes, re-seeds the accumulator with the whole
\* snapshot and goes on to the engine call.
C12_AsStated ==
    [][(worker = "locked" /\ worker' # "locked"
        /\ Len(buf) >= audio_buf_size /\ keep_size > Len(buf)) =>
            /\ worker' = "drained"
            /\ audio_data' = buf
            /\ buf' = buf]_vars

\* C13: with window >= 1, a trigger processed on the empty accumulator
\* yields an empty snapshot and full = FALSE without failing, leaves the
\* accumulator empty and sets fix_next to FALSE.
C13_EmptyDrain ==
    [][(worker = "locked" /\ worker' # "locked"
        /\ buf = <<>> /\ audio_buf_size >= 1) =>
            /\ worker' = "drained"
            /\ audio_data' = <<>>
            /\ buf' = <<>>
            /\ fix_next' = FALSE
            /\ fulls' = Append(fulls, FALSE)]_vars
\* an empty drain right after a full one: fix_next went from TRUE to FALSE
C13_Witness ==
    /\ worker = "drained"
    /\ length >= 1
    /\ audio_data = <<>>
    /\ buf = <<>>
    /\ fix = TRUE
    /\ fix_next = FALSE

\* C14: while the worker is inside the engine call it does not hold the
\* mutex (nor is the mutex poisoned), so each step of a producer push is
\* enabled unless the producer itself holds the mutex already.
C14_NoLockAcrossEngineCall ==
    worker = "engine" =>
        /\ lock # "worker"
        /\ ~poisoned
        /\ (producer = "pulled" /\ lock = "free") => ENABLED ProducerLock
        /\ producer = "locked" => (lock = "producer" /\ ENABLED ProducerExtend)
        /\ producer = "extended" => (lock = "producer" /\ ENABLED ProducerTruncate)
\* a push that started after the drain is under way during the engine call
C14_Witness ==
    /\ worker = "engine"
    /\ producer = "extended"
    /\ audio_data # <<>>
    /\ locked_buf # <<>>
    /\ samples[1] > audio_data[Len(audio_data)]

\* C15: an engine failure ends the worker: the step out of the engine call
\* that is not a success leaves the thread panicked with nothing emitted,
\* and a panicked worker never receives a tick nor emits an event again.
C15_EngineFailureIsFatal ==
    /\ [][(worker = "engine" /\ worker' \notin {"engine", "send"}) =>
            /\ worker' = "panicked"
            /\ emitted' = emitted
            /\ result_chan' = result_chan]_vars
    /\ [][worker = "panicked" =>
            /\ worker' = "panicked"
            /\ received' = received
            /\ emitted' = emitted
            /\ tick_chan' = 0]_vars
    /\ [](worker = "panicked" => Len(emitted) = received - 1)
\* the engine failed on the second trigger and a later tick found no worker
C15_Witness ==
    /\ worker = "panicked"
    /\ ~poisoned
    /\ received = 2
    /\ Len(emitted) = 1
    /\ fired = 3
    /\ tick_chan = 0
    /\ dropped = 1

\* C16: the timer callback never blocks: whatever the channel and the worker
\* are doing, a fire (up to MaxTicks of them) is enabled, takes one step and
\* leaves the timer scheduled.
C16_TimerNeverBlocks ==
    /\ [](/\ timer = "scheduled"
          /\ fired < MaxTicks => ENABLED TimerFire)
    /\ [][TimerStep =>
            /\ timer' = "scheduled"
            /\ tick_chan' \in {tick_chan, tick_chan + 1}
            /\ worker' = worker]_vars
\* fires completed with the channel full during an engine call
C16_Witness ==
    /\ worker = "engine"
    /\ tick_chan = 1
    /\ dropped = 1
    /\ fired = 3
    /\ received = 1
    /\ timer = "scheduled"

\* the source delivers a buffer that yields no samples
BadBufferStep == pushes' = pushes + 1 /\ pushed' = pushed

\* C17 as stated: a malformed buffer is skipped: the accumulator is
\* unchanged, no error is reported and the callback is ready for the next
\* buffer.
C17_AsStated ==
    [][BadBufferStep =>
        /\ buf' = buf
        /\ bus_errors' = bus_errors
        /\ producer' = "idle"]_vars
\* C17 amended: a malformed buffer leaves the accumulator unchanged but is
\* propagated: an error is posted on the bus, the callback returns a flow
\* error, and from then on no buffer is taken nor appended.
C17_BadBufferStopsStream ==
    /\ [][BadBufferStep =>
            /\ buf' = buf
            /\ bus_errors' = bus_errors + 1
            /\ producer' = "stopped"]_vars
    /\ [][producer = "stopped" =>
            /\ producer' = "stopped"
            /\ pushed' = pushed
            /\ pushes' = pushes
            /\ Len(buf') <= Len(buf)]_vars
\* a bad buffer arrived after a good one had been appended
C17_Witness ==
    /\ producer = "stopped"
    /\ ~poisoned
    /\ bus_errors = 1
    /\ pushes = 2
    /\ buf # <<>>

\* C18: without eviction in between, the snapshot of a drain is R followed
\* by the samples appended since the previous drain, in capture order, where
\* R is the previous snapshot when that one was not full and its last
\* keep_size samples when it was (`carry` records R as the claim defines it).
C18_WindowsContinue ==
    [][(worker = "locked" /\ worker' # "locked"
        /\ Len(fulls) >= 1 /\ ~evicted) =>
            audio_data' = carry \o since]_vars
\* a second window that overlaps the first, full one by keep_size samples
\* and goes on with newer samples
C18_Witness ==
    /\ worker = "drained"
    /\ Len(fulls) = 2
    /\ fulls[1] = TRUE
    /\ keep_size > 0
    /\ Len(audio_data) > keep_size
    /\ Len(audio_data) < max_buf_size
    /\ audio_data[1] > 1

\* C19 as stated: once the worker has ended abnormally, a producer push
\* still acquires the mutex and goes on, and the accumulator stays within
\* capacity whenever the mutex is free.
C19_AsStated ==
    /\ [][(worker = "panicked" /\ producer = "pulled" /\ producer' # "pulled") =>
            /\ producer' = "locked"
            /\ lock' = "producer"
            /\ bus_errors' = bus_errors]_vars
    /\ []((worker = "panicked" /\ lock = "free") => Len(buf) <= max_buf_size)

\* the captions finalized by a sequence of events, oldest first, when the
\* caption shown before them is lbl: each event with fix = TRUE finalizes the
\* caption shown at that moment, and every event's text becomes the caption
RECURSIVE Finalized(_, _)
Finalized(evs, lbl) ==
    IF evs = <<>> THEN <<>>
    ELSE (IF Head(evs)[2] THEN <<lbl>> ELSE <<>>)
            \o Finalized(Tail(evs), Head(evs)[1])

\* C20: the scrollback holds at most 100 captions: the most recently
\* finalized ones, in order.
C20_ScrollbackBounded ==
    /\ Len(scrollbacks) <= 100
    /\ LET all == Finalized(applied, <<>>) IN
        scrollbacks = LastN(all, Min(100, Len(all)))
\* 102 captions were finalized: the two oldest are gone
C20_Witness ==
    /\ Len(Finalized(applied, <<>>)) = 102
    /\ Len(scrollbacks) = 100
    /\ ~applied[50][2]
====
